---- MODULE Spec2Model ----
(***************************************************************************)
(* HostEndpointsController of cluster-etcd-operator                        *)
(* (pkg/operator/hostendpointscontroller/host_endpoints_controller.go).    *)
(*                                                                         *)
(* The controller keeps the Endpoints object "host-etcd" in step with the  *)
(* master nodes of the cluster: one address per node, named by a reverse   *)
(* lookup through the SRV records of the etcd discovery domain, plus the   *)
(* etcd-bootstrap address when the published object holds one.             *)
(*                                                                         *)
(* Go strings are sequences of one-character strings, so that the          *)
(* comparisons (<), strings.Trim and strings.TrimSuffix of the code are    *)
(* computed and not assumed: "etcd-0" is <<"e","t","c","d","-","0">>.      *)
(* A nil *string (EndpointAddress.NodeName of a bootstrap address) is Nil. *)
(***************************************************************************)
EXTENDS Integers, Sequences, FiniteSets, TLC

VARIABLES
    world,         \* index into Worlds: what the infrastructure, network and node listers and DNS answer (any of Worlds, fixed over a behaviour)
    store,         \* endpoints/host-etcd as the API server holds it
    cache,         \* endpoints/host-etcd as endpointsLister returns it
    watch,         \* the stored versions of host-etcd the endpoints informer has not yet put in its indexer, oldest first
    notify,        \* how many notifications of the endpoints informer its handler has not yet run for
    cond,          \* the operator condition HostEndpointsDegraded as the API server holds it
    condSeen,      \* the operator condition as the operator client's lister returns it
    queue,         \* workqueue: the items waiting for Get, in order
    dirty,         \* workqueue: the items that need processing
    processing,    \* workqueue: the items handed out by Get and not yet Done
    waiting,       \* delaying queue: the items AddAfter holds until their time
    failures,      \* rate limiter: failures counted for workQueueKey
    shuttingDown,  \* workqueue: ShutDown was called
    run,           \* Run: "new", "running" (the worker goroutine is started), "returned"
    ctxDone,       \* the context given to Run is cancelled
    goroutines,    \* how many goroutines Run has started for runWorker
    pc,            \* the worker goroutine: where it is in processNextWorkItem
    att,           \* the locals of the reconcile attempt in flight, and history: fixed, repeat (see prevClean), down (the queue was shut down when Get returned the item)
    prevClean,     \* history: the last attempt ran on an unchanging world with a current lister, no store write of it failed, and nothing outside the controller changed since
    envBudget,     \* how many more writes other writers make to host-etcd
    eqIn,          \* the two subset lists handed to endpointsSubsetsEqual
    eqOut,         \* what endpointsSubsetsEqual answered
    dnsIn,         \* the answers of the resolver and the ip handed to reverseLookup
    dnsOut         \* what reverseLookup answered, and the address built from it

vars == <<world, store, cache, watch, notify, cond, condSeen, queue, dirty, processing, waiting,
          failures,
          shuttingDown, run, ctxDone, goroutines, pc, att, prevClean, envBudget, eqIn, eqOut,
          dnsIn,
          dnsOut>>

ctlVars == <<world, store, cache, watch, notify, cond, condSeen, queue, dirty, processing,
             waiting, failures,
             shuttingDown, run, ctxDone, goroutines, pc, att, prevClean, envBudget>>

eqVars == <<eqIn, eqOut>>

dnsVars == <<dnsIn, dnsOut>>

\* the variables of the functions checked on their own
fnVars == <<eqVars, dnsVars>>

(***************************************************************************)
(* Bounds of the model                                                     *)
(***************************************************************************)
\* the failure count of the rate limiter saturates here (the delay it stands for is capped too)
MaxFailures == 1
\* the number of writes other writers make to host-etcd
MaxExternalWrites == 1
\* the longest address list drawn for the comparison of subsets
MaxAddrs == 2
\* the most SRV records drawn for reverseLookup
MaxSrvs == 3
\* the largest workers argument given to Run
MaxWorkers == 2
\* the most notifications of the endpoints informer that wait for its handler
MaxNotify == 1

(***************************************************************************)
(* Strings                                                                 *)
(***************************************************************************)
\* the characters the model uses, in byte order
Chars == <<"-", ".", "0", "1", "2", "3", "4", "5", "6", "7", "8", "9",
           "a", "b", "c", "d", "e", "f", "g", "h", "i", "j", "k", "l", "m",
           "n", "o", "p", "q", "r", "s", "t", "u", "v", "w", "x", "y", "z">>

Rank(c) == CHOOSE i \in 1..Len(Chars) : Chars[i] = c

Nil == <<"nil">>

EmptyStr == <<>>

\* Go's s < t on strings: bytewise, a proper prefix is smaller
StrLess(s, t) ==
    \E k \in 1..(Len(t)) :
        /\ \A i \in 1..(k - 1) : i <= Len(s) /\ s[i] = t[i]
        /\ \/ k = Len(s) + 1
           \/ k <= Len(s) /\ Rank(s[k]) < Rank(t[k])

HasSuffix(s, suffix) ==
    /\ Len(suffix) <= Len(s)
    /\ SubSeq(s, Len(s) - Len(suffix) + 1, Len(s)) = suffix

\* strings.TrimSuffix
TrimSuffix(s, suffix) ==
    IF HasSuffix(s, suffix) THEN SubSeq(s, 1, Len(s) - Len(suffix)) ELSE s

RECURSIVE TrimLeft(_, _)
TrimLeft(s, c) ==
    IF Len(s) > 0 /\ s[1] = c THEN TrimLeft(Tail(s), c) ELSE s

RECURSIVE TrimRight(_, _)
TrimRight(s, c) ==
    IF Len(s) > 0 /\ s[Len(s)] = c THEN TrimRight(SubSeq(s, 1, Len(s) - 1), c) ELSE s

\* strings.Trim(s, c) for a one-character cutset
Trim(s, c) == TrimRight(TrimLeft(s, c), c)

workQueueKey == "key"

BootstrapName == <<"e", "t", "c", "d", "-", "b", "o", "o", "t", "s", "t", "r", "a", "p">>
DnsSuffixKey == "alpha.installer.openshift.io/dns-suffix"

(***************************************************************************)
(* Objects                                                                 *)
(***************************************************************************)
\* corev1.EndpointAddress
Addr(ip, hostname, nodeName) == [IP |-> ip, Hostname |-> hostname, NodeName |-> nodeName]

EtcdPort == [Name |-> "etcd", Port |-> 2379, Protocol |-> "TCP"]

\* corev1.EndpointSubset
Subset(addrs, notReady, ports) ==
    [Addresses |-> addrs, NotReadyAddresses |-> notReady, Ports |-> ports]

\* the value of the annotation DnsSuffixKey when the object does not carry it
NoAnnotation == <<"none">>

\* corev1.Endpoints named host-etcd: Annotations is the value under DnsSuffixKey
Endpoints(ann, subsets) == [present |-> TRUE, Annotations |-> ann, Subsets |-> subsets]

\* what a Get of host-etcd answers when the object does not exist
NotFoundObj == [present |-> FALSE, Annotations |-> NoAnnotation, Subsets |-> <<>>]

hostEndpointsAsset == Endpoints(NoAnnotation, <<Subset(<<>>, <<>>, <<EtcdPort>>)>>)

(***************************************************************************)
(* The comparison of subsets                                               *)
(***************************************************************************)
\* the comparator dereferences NodeName once IP and Hostname are equal
ComparatorPanics(a, b) ==
    /\ a.IP = b.IP
    /\ a.Hostname = b.Hostname
    /\ (a.NodeName = Nil \/ b.NodeName = Nil)

ComparatorIgnoringHostname(a, b) ==
    IF a.IP # b.IP THEN StrLess(a.IP, b.IP)
    ELSE StrLess(a.NodeName, b.NodeName)

\* newEndpointAddressSliceComparator, where it does not panic
newEndpointAddressSliceComparator(a, b) ==
    IF a.IP # b.IP THEN StrLess(a.IP, b.IP)
    ELSE IF a.Hostname # b.Hostname THEN StrLess(a.Hostname, b.Hostname)
    ELSE StrLess(a.NodeName, b.NodeName)

Swap(s, i, j) == [s EXCEPT ![i] = s[j], ![j] = s[i]]

\* Where a result is used more than once it is bound by "x \in {e}" rather than by
\* LET: TLC then computes e once, also when it evaluates ENABLED.

\* the inner loop of the insertion sort sort.Slice runs on a short slice:
\* for j := i; j > 0 && less(j, j-1); j-- { swap(j, j-1) }
RECURSIVE SiftDown(_, _)
SiftDown(slice, j) ==
    CHOOSE out \in
        { IF j <= 1 THEN [panic |-> FALSE, val |-> s]
          ELSE IF ComparatorPanics(s[j], s[j - 1]) THEN [panic |-> TRUE, val |-> s]
          ELSE IF newEndpointAddressSliceComparator(s[j], s[j - 1])
               THEN SiftDown(Swap(s, j, j - 1), j - 1)
               ELSE [panic |-> FALSE, val |-> s] : s \in {slice} } : TRUE

RECURSIVE InsertionSort(_, _)
InsertionSort(slice, i) ==
    IF i > Len(slice) THEN [panic |-> FALSE, val |-> slice]
    ELSE CHOOSE out \in
             { IF r.panic THEN r ELSE InsertionSort(r.val, i + 1) :
                   r \in {SiftDown(slice, i)} } : TRUE

SortSliceUnsorted(s) == [panic |-> FALSE, val |-> s]

\* sort.Slice(addresses, newEndpointAddressSliceComparator(addresses))
SortSlice(s) == InsertionSort(s, 2)

\* endpointSubsetEqual: [panic, eq]
endpointSubsetEqual(lhs, rhs) ==
    IF Len(lhs.Addresses) # Len(rhs.Addresses) THEN [panic |-> FALSE, eq |-> FALSE]
    ELSE IF Len(lhs.NotReadyAddresses) # Len(rhs.NotReadyAddresses) THEN [panic |-> FALSE, eq |-> FALSE]
    ELSE IF Len(lhs.Ports) # Len(rhs.Ports) THEN [panic |-> FALSE, eq |-> FALSE]
    ELSE CHOOSE out \in
             { IF l.panic \/ r.panic THEN [panic |-> TRUE, eq |-> FALSE]
               ELSE [panic |-> FALSE, eq |-> (l.val = r.val)] :
                   l \in {SortSlice(lhs.Addresses)}, r \in {SortSlice(rhs.Addresses)} } : TRUE

RECURSIVE SubsetsEqualFrom(_, _, _)
SubsetsEqualFrom(lhs, rhs, i) ==
    IF i > Len(lhs) THEN [panic |-> FALSE, eq |-> TRUE]
    ELSE CHOOSE out \in
             { IF e.panic \/ ~e.eq THEN e ELSE SubsetsEqualFrom(lhs, rhs, i + 1) :
                   e \in {endpointSubsetEqual(lhs[i], rhs[i])} } : TRUE

\* endpointsSubsetsEqual: [panic, eq]
endpointsSubsetsEqual(lhs, rhs) ==
    IF Len(lhs) # Len(rhs) THEN [panic |-> FALSE, eq |-> FALSE]
    ELSE SubsetsEqualFrom(lhs, rhs, 1)

(***************************************************************************)
(* Errors: the empty string is Go's nil error, any other string names the  *)
(* error that is returned (its text)                                       *)
(***************************************************************************)
NoErr == ""
ErrNotFound == "endpoints \"host-etcd\" not found"
ErrInfraNotFound == "unable to determine etcd discovery domain: infrastructure \"cluster\" not found"
ErrDomainMissing == "unable to determine etcd discovery domain: missing .status.etcdDiscoveryDomain"
ErrNetworkNotFound == "network \"cluster\" not found"
ErrNodeList == "unable to list expected etcd member nodes"
ErrNodeIP == "no preferred internal ip address for node"
ErrNodeIPEmpty == "unable to determine internal ip address for node"
ErrSRVLookup == "unable to determine etcd member dns name for node: SRV lookup failed"
ErrMemberUnresolved == "unable to determine etcd member dns name for node: could not resolve member"
ErrSelfNotFound == "unable to determine etcd member dns name for node: could not find self"
ErrNoReadyMembers == "no etcd member nodes are ready"
ErrCreateFailed == "create of endpoints \"host-etcd\" failed"
ErrUpdateFailed == "update of endpoints \"host-etcd\" failed"
ErrStatusUpdate == "update of the operator status failed"

(***************************************************************************)
(* DNS                                                                     *)
(***************************************************************************)
\* one SRV record and what net.LookupHost answers for its target
Srv(target, ok, addrs) == [Target |-> target, ok |-> ok, addrs |-> addrs]

\* does addrs hold ip: the inner loop of reverseLookup
HasAddr(addrs, ip) == \E i \in 1..Len(addrs) : addrs[i] = ip

RECURSIVE ScanFirstMatch(_, _, _, _)
ScanFirstMatch(srvs, ip, i, selfTarget) ==
    IF i > Len(srvs) THEN [err |-> NoErr, name |-> selfTarget]
    ELSE IF ~srvs[i].ok THEN [err |-> ErrMemberUnresolved, name |-> EmptyStr]
    ELSE IF HasAddr(srvs[i].addrs, ip) /\ selfTarget = EmptyStr
         THEN ScanFirstMatch(srvs, ip, i + 1, Trim(srvs[i].Target, "."))
         ELSE ScanFirstMatch(srvs, ip, i + 1, selfTarget)

\* the loop of reverseLookup going on to the next record when a lookup fails
RECURSIVE ScanSkipsFailedLookup(_, _, _, _)
ScanSkipsFailedLookup(srvs, ip, i, selfTarget) ==
    IF i > Len(srvs) THEN [err |-> NoErr, name |-> selfTarget]
    ELSE IF srvs[i].ok /\ HasAddr(srvs[i].addrs, ip)
         THEN ScanSkipsFailedLookup(srvs, ip, i + 1, Trim(srvs[i].Target, "."))
         ELSE ScanSkipsFailedLookup(srvs, ip, i + 1, selfTarget)

\* the loop of reverseLookup over the SRV records: every target is looked up,
\* a failed lookup ends the scan, the last target that holds ip is kept
RECURSIVE ScanSrvs(_, _, _, _)
ScanSrvs(srvs, ip, i, selfTarget) ==
    IF i > Len(srvs) THEN [err |-> NoErr, name |-> selfTarget]
    ELSE IF ~srvs[i].ok THEN [err |-> ErrMemberUnresolved, name |-> EmptyStr]
    ELSE IF HasAddr(srvs[i].addrs, ip)
         THEN ScanSrvs(srvs, ip, i + 1, Trim(srvs[i].Target, "."))
         ELSE ScanSrvs(srvs, ip, i + 1, selfTarget)

\* reverseLookup("etcd-server-ssl", "tcp", discoveryDomain, ip) against the
\* answers dns = [srvOK, srvs] of the resolver: [err, name]
reverseLookup(dns, ip) ==
    IF ~dns.srvOK THEN [err |-> ErrSRVLookup, name |-> EmptyStr]
    ELSE CHOOSE out \in
             { IF r.err # NoErr THEN r
               ELSE IF r.name = EmptyStr THEN [err |-> ErrSelfNotFound, name |-> EmptyStr]
               ELSE r : r \in {ScanSrvs(dns.srvs, ip, 1, EmptyStr)} } : TRUE

getEtcdDNSName(dns, ip) == reverseLookup(dns, ip)

(***************************************************************************)
(* Topology and configuration                                              *)
(***************************************************************************)
\* a master node and the answer of dnshelpers.GetPreferredInternalIPAddressForNodeName for it
Node(name, ipErr, ip) == [Name |-> name, ipErr |-> ipErr, ip |-> ip]

GetPreferredInternalIPAddressForNodeName(node) ==
    IF node.ipErr THEN [err |-> ErrNodeIP, ip |-> EmptyStr]
    ELSE [err |-> NoErr, ip |-> node.ip]

\* getEtcdDiscoveryDomain without the check for an empty domain
DiscoveryDomainUnchecked(w) ==
    IF ~w.infraOK THEN [err |-> ErrInfraNotFound, domain |-> EmptyStr]
    ELSE [err |-> NoErr, domain |-> w.domain]

\* getEtcdDiscoveryDomain: [err, domain]
getEtcdDiscoveryDomain(w) ==
    IF ~w.infraOK THEN [err |-> ErrInfraNotFound, domain |-> EmptyStr]
    ELSE IF Len(w.domain) = 0 THEN [err |-> ErrDomainMissing, domain |-> EmptyStr]
    ELSE [err |-> NoErr, domain |-> w.domain]

(***************************************************************************)
(* syncHostEndpoints up to the call of applyEndpoints                      *)
(***************************************************************************)
\* the loop over the nodes, taken in the order the lister lists them: [err, addrs]
RECURSIVE NodeAddresses(_, _, _, _)
NodeAddresses(w, nodes, i, addresses) ==
    IF i > Len(nodes) THEN [err |-> NoErr, addrs |-> addresses]
    ELSE CHOOSE out \in
        { IF p.err # NoErr THEN [err |-> p.err, addrs |-> <<>>]
          ELSE IF Len(p.ip) = 0 THEN [err |-> ErrNodeIPEmpty, addrs |-> <<>>]
          ELSE CHOOSE out2 \in
              { IF d.err # NoErr THEN [err |-> d.err, addrs |-> <<>>]
                ELSE NodeAddresses(w, nodes, i + 1,
                         Append(acc, Addr(p.ip,
                                          TrimSuffix(d.name, <<".">> \o w.domain),
                                          nodes[i].Name))) :
                    d \in {getEtcdDNSName(w.dns, p.ip)} } : TRUE :
              p \in {GetPreferredInternalIPAddressForNodeName(nodes[i])},
              acc \in {addresses} } : TRUE

IsBootstrap(a) == a.Hostname = BootstrapName

DropBootstrap(addrs) == <<>>

\* "if etcd-bootstrap exists, keep it": the first address of addrs named etcd-bootstrap, if any
KeepBootstrap(addrs) ==
    IF \E i \in 1..Len(addrs) : IsBootstrap(addrs[i])
    THEN LET first == CHOOSE i \in 1..Len(addrs) :
                          /\ IsBootstrap(addrs[i])
                          /\ \A j \in 1..(i - 1) : ~IsBootstrap(addrs[j])
         IN  <<addrs[first]>>
    ELSE <<>>

NoRequired == [present |-> FALSE, Annotations |-> NoAnnotation, Subsets |-> <<>>]

BuildResult(err, panic, required, members) ==
    [err |-> err, panic |-> panic, required |-> required, members |-> members]

BuildOnAbsentFallsThrough(existing) == FALSE

\* the first statement of syncHostEndpoints: host-etcd must exist in order to continue
ExistingMissing(existing) == ~existing.present

\* syncHostEndpoints without its check for an empty address list
EmptyCheckDropped(memberAddrs, allAddrs) == FALSE

EmptyCheckBeforeBootstrap(memberAddrs, allAddrs) == Len(memberAddrs) = 0

\* the check of len(required.Subsets[0].Addresses) == 0, made once the bootstrap address is appended
NoAddresses(memberAddrs, allAddrs) == Len(allAddrs) = 0

\* syncHostEndpoints before applyEndpoints, for the object the lister returned, the
\* world w and the nodes in the order listed
BuildDesired(existing, w, nodes) ==
    IF ExistingMissing(existing) THEN BuildResult(ErrNotFound, FALSE, NoRequired, 0)
    ELSE CHOOSE out \in
        { IF dd.err # NoErr THEN BuildResult(dd.err, FALSE, NoRequired, 0)
          ELSE IF ~w.networkOK THEN BuildResult(ErrNetworkNotFound, FALSE, NoRequired, 0)
          ELSE IF ~w.nodesOK THEN BuildResult(ErrNodeList, FALSE, NoRequired, 0)
          ELSE CHOOSE out2 \in
              { IF na.err # NoErr THEN BuildResult(na.err, FALSE, NoRequired, 0)
                ELSE IF Len(existing.Subsets) = 0
                     THEN BuildResult(NoErr, TRUE, NoRequired, Len(na.addrs))
                ELSE CHOOSE out3 \in
                    { IF NoAddresses(na.addrs, all)
                      THEN BuildResult(ErrNoReadyMembers, FALSE, NoRequired, Len(na.addrs))
                      ELSE BuildResult(NoErr, FALSE,
                               Endpoints(dd.domain, <<Subset(all, <<>>, <<EtcdPort>>)>>),
                               Len(na.addrs)) :
                          all \in {na.addrs \o KeepBootstrap(existing.Subsets[1].Addresses)} } : TRUE :
                    na \in {NodeAddresses(w, nodes, 1, <<>>)} } : TRUE :
              dd \in {getEtcdDiscoveryDomain(w)} } : TRUE

(***************************************************************************)
(* applyEndpoints up to its call of the client                             *)
(***************************************************************************)
ApplyPlan(op, toWrite, changed) == [op |-> op, toWrite |-> toWrite, changed |-> changed]

\* resourcemerge.EnsureObjectMeta for the one annotation required carries
EnsureObjectMeta(existing, required) ==
    [modified |-> existing.Annotations # required.Annotations,
     Annotations |-> required.Annotations]

UpdateAlways(modified) == "update"

\* "if !*modified { return nil }": no update needed
WriteIfModified(modified) == IF modified THEN "update" ELSE "none"

\* applyEndpoints for the object the lister returned: what it asks of the client
\* ("create", "update", "none") or "panic", the object it sends and changed
PlanApply(existing, required) ==
    IF ~existing.present THEN ApplyPlan("create", required, FALSE)
    ELSE CHOOSE out \in
        { IF same.panic THEN ApplyPlan("panic", NoRequired, FALSE)
          ELSE ApplyPlan(WriteIfModified(meta.modified \/ ~same.eq),
                         [present |-> TRUE,
                          Annotations |-> meta.Annotations,
                          Subsets |-> IF same.eq THEN existing.Subsets
                                      ELSE required.Subsets],
                         meta.modified \/ ~same.eq) :
              meta \in {EnsureObjectMeta(existing, required)},
              same \in {endpointsSubsetsEqual(existing.Subsets, required.Subsets)} } : TRUE

(***************************************************************************)
(* The worlds the controller is run in                                     *)
(***************************************************************************)
Net == <<"1", "0", ".", "0", ".", "0", ".">>
IP1 == Net \o <<"1">>
IP2 == Net \o <<"2">>
IPBoot == Net \o <<"9">>
IPBoot2 == Net \o <<"8">>
Etcd == <<"e", "t", "c", "d", "-">>
Domain == <<"e", "x", "a", "m", "p", "l", "e", ".", "c", "o", "m">>
Fqdn(host) == host \o <<".">> \o Domain \o <<".">>
N1 == <<"n", "1">>
N2 == <<"n", "2">>
IP3 == Net \o <<"3">>
N3 == <<"n", "3">>

GoodDNS ==
    [srvOK |-> TRUE,
     srvs |-> <<Srv(Fqdn(Etcd \o <<"0">>), TRUE, <<IP1>>),
                Srv(Fqdn(Etcd \o <<"1">>), TRUE, <<IP2>>)>>]

World(infraOK, domain, networkOK, nodesOK, nodes, dns) ==
    [infraOK |-> infraOK, domain |-> domain, networkOK |-> networkOK,
     nodesOK |-> nodesOK, nodes |-> nodes, dns |-> dns]

TwoNodes == <<Node(N1, FALSE, IP1), Node(N2, FALSE, IP2)>>

\* three master nodes 10.0.0.1, 10.0.0.2, 10.0.0.3 and the SRV targets
\* etcd-0, etcd-1, etcd-2 of the domain, each resolving to one of them
ThreeNodes == <<Node(N1, FALSE, IP1), Node(N2, FALSE, IP2), Node(N3, FALSE, IP3)>>

ThreeDNS ==
    [srvOK |-> TRUE,
     srvs |-> <<Srv(Fqdn(Etcd \o <<"0">>), TRUE, <<IP1>>),
                Srv(Fqdn(Etcd \o <<"1">>), TRUE, <<IP2>>),
                Srv(Fqdn(Etcd \o <<"2">>), TRUE, <<IP3>>)>>]

Worlds ==
    << World(TRUE, Domain, TRUE, TRUE, TwoNodes, GoodDNS),
       World(TRUE, Domain, TRUE, TRUE, <<>>, GoodDNS),
       World(TRUE, EmptyStr, TRUE, TRUE, TwoNodes, GoodDNS),
       World(TRUE, Domain, FALSE, TRUE, TwoNodes, GoodDNS),
       World(TRUE, Domain, TRUE, FALSE, TwoNodes, GoodDNS),
       World(TRUE, Domain, TRUE, TRUE, <<Node(N1, FALSE, IP1), Node(N2, FALSE, EmptyStr)>>, GoodDNS),
       World(TRUE, Domain, TRUE, TRUE, TwoNodes,
             [srvOK |-> TRUE,
              srvs |-> <<Srv(Fqdn(Etcd \o <<"0">>), TRUE, <<IP1>>),
                         Srv(Fqdn(Etcd \o <<"1">>), FALSE, <<>>)>>]),
       World(TRUE, Domain, TRUE, TRUE, TwoNodes,
             [srvOK |-> TRUE,
              srvs |-> <<Srv(Fqdn(Etcd \o <<"0">>), TRUE, <<IP1>>)>>]),
       World(TRUE, Domain, TRUE, TRUE, ThreeNodes, ThreeDNS) >>

\* the world of three nodes is the last one; the others are the worlds of Init
ThreeNodeWorld == Len(Worlds)
SmallWorlds == 1..(Len(Worlds) - 1)

BootAddr == Addr(IPBoot, BootstrapName, Nil)
\* a second address named etcd-bootstrap
BootAddr2 == Addr(IPBoot2, BootstrapName, Nil)
Member1 == Addr(IP1, Etcd \o <<"0">>, N1)
Member2 == Addr(IP2, Etcd \o <<"1">>, N2)
Member3 == Addr(IP3, Etcd \o <<"2">>, N3)

\* a port other than the one hostEndpointsAsset gives
PeerPort == [Name |-> "etcd", Port |-> 2380, Protocol |-> "TCP"]

OneSubset(addrs) == <<Subset(addrs, <<>>, <<EtcdPort>>)>>

\* the objects the installer and other writers leave in the store
ExtObjects ==
    { NotFoundObj,
      Endpoints(NoAnnotation, OneSubset(<<BootAddr>>)),
      Endpoints(Domain, OneSubset(<<Member2, BootAddr, Member1, BootAddr2>>)),
      Endpoints(Domain, <<Subset(<<Member2, Member1>>, <<>>, <<EtcdPort>>),
                          Subset(<<BootAddr>>, <<>>, <<EtcdPort>>)>>),
      Endpoints(NoAnnotation, <<Subset(<<Member2, Member1>>, <<>>, <<PeerPort>>)>>),
      Endpoints(NoAnnotation, <<>>) }

\* host-etcd with an empty address set: one subset without addresses, or no subset
EmptyObjects ==
    { Endpoints(NoAnnotation, OneSubset(<<>>)),
      Endpoints(NoAnnotation, <<>>) }

(***************************************************************************)
(* The work queue (client-go workqueue with its rate limiter)              *)
(***************************************************************************)
QState == [queue |-> queue, dirty |-> dirty, processing |-> processing]

AddNoDedup(q, item, down) ==
    IF down THEN q ELSE [q EXCEPT !.dirty = @ \cup {item}, !.queue = Append(@, item)]

\* Add that takes items after ShutDown
AddIgnoresShutdown(q, item, down) ==
    IF item \in q.dirty THEN q
    ELSE IF item \in q.processing THEN [q EXCEPT !.dirty = @ \cup {item}]
    ELSE [q EXCEPT !.dirty = @ \cup {item}, !.queue = Append(@, item)]

\* queue.Add(item)
QueueAdd(q, item, down) ==
    IF down \/ item \in q.dirty THEN q
    ELSE IF item \in q.processing THEN [q EXCEPT !.dirty = @ \cup {item}]
    ELSE [q EXCEPT !.dirty = @ \cup {item}, !.queue = Append(@, item)]

\* queue.Get() when an item waits
QueueGet(q) ==
    [queue |-> Tail(q.queue),
     dirty |-> q.dirty \ {Head(q.queue)},
     processing |-> q.processing \cup {Head(q.queue)}]

DoneDropsDirty(q, item) == [q EXCEPT !.processing = @ \ {item}, !.dirty = @ \ {item}]

\* queue.Done(item)
QueueDone(q, item) ==
    IF item \in q.dirty
    THEN [q EXCEPT !.processing = @ \ {item}, !.queue = Append(@, item)]
    ELSE [q EXCEPT !.processing = @ \ {item}]

SetQueue(q) ==
    /\ queue' = q.queue
    /\ dirty' = q.dirty
    /\ processing' = q.processing

Sources == {"operator", "endpoints", "infrastructure", "network", "node"}

\* the key the handler of a watch source enqueues
eventHandler(source) == workQueueKey

(***************************************************************************)
(* State                                                                   *)
(***************************************************************************)
NoAttempt ==
    [existing |-> NotFoundObj, required |-> NoRequired, members |-> 0,
     hostErr |-> NoErr, stage |-> "none", op |-> "none", written |-> NoRequired,
     changed |-> FALSE, writes |-> 0, writeFailed |-> FALSE,
     statusOK |-> FALSE, syncErr |-> NoErr, fixed |-> FALSE, repeat |-> FALSE,
     down |-> FALSE, stale |-> FALSE]

CondUnset == [Status |-> "Unknown", Reason |-> "", Message |-> ""]

EqIdle == [lhs |-> <<>>, rhs |-> <<>>]

EqNone == [done |-> FALSE, panic |-> FALSE, eq |-> FALSE,
           op |-> "none", changed |-> FALSE, subsets |-> <<>>]

DnsIdle == [srvOK |-> TRUE, srvs |-> <<>>, ip |-> EmptyStr]

DnsNone == [done |-> FALSE, err |-> NoErr, name |-> EmptyStr, addrErr |-> NoErr, addrs |-> <<>>]

Init ==
    /\ world \in SmallWorlds
    /\ store \in ExtObjects
    /\ cache = store
    /\ watch = <<>>
    /\ notify = 0
    /\ cond = CondUnset
    /\ condSeen = CondUnset
    /\ queue = <<>>
    /\ dirty = {}
    /\ processing = {}
    /\ waiting = {}
    /\ failures = 0
    /\ shuttingDown = FALSE
    /\ run = "new"
    /\ ctxDone = FALSE
    /\ goroutines = 0
    /\ pc = "notStarted"
    /\ att = NoAttempt
    /\ prevClean = FALSE
    /\ envBudget = MaxExternalWrites
    /\ eqIn = EqIdle
    /\ eqOut = EqNone
    /\ dnsIn = DnsIdle
    /\ dnsOut = DnsNone

Alive == pc # "crashed"

(***************************************************************************)
(* The world outside the controller                                        *)
(***************************************************************************)
Disturb ==
    /\ prevClean' = FALSE
    /\ att' = [att EXCEPT !.fixed = FALSE, !.repeat = FALSE,
                          !.stale = IF pc = "write" THEN TRUE ELSE @]
    /\ envBudget' = envBudget - 1

\* another writer replaces or deletes host-etcd
ExternalWrite ==
    /\ Alive
    /\ envBudget > 0
    /\ \E o \in ExtObjects :
        /\ o # store
        /\ store' = o
        /\ watch' = Append(watch, o)
    /\ Disturb
    /\ UNCHANGED <<world, cache, notify, cond, condSeen, queue, dirty, processing, waiting, failures,
                   shuttingDown, run, ctxDone, goroutines, pc, fnVars>>

\* the endpoints informer puts the next stored version in its indexer, which the
\* lister reads, and hands a notification to the goroutine that runs its handlers
InformerSync ==
    /\ Alive
    /\ watch # <<>>
    /\ notify < MaxNotify
    /\ cache' = Head(watch)
    /\ watch' = Tail(watch)
    /\ notify' = notify + 1
    /\ UNCHANGED <<world, store, cond, condSeen, queue, dirty, processing, waiting, failures,
                   shuttingDown, run, ctxDone, goroutines, pc, att, prevClean, envBudget, fnVars>>

\* the informer of the operator client puts the stored operator status in its
\* indexer, which UpdateStatus reads, and notifies the handler
CondSync ==
    /\ Alive
    /\ condSeen # cond
    /\ notify < MaxNotify
    /\ condSeen' = cond
    /\ notify' = notify + 1
    /\ UNCHANGED <<world, store, watch, cache, cond, queue, dirty, processing, waiting,
                   failures, shuttingDown, run, ctxDone, goroutines, pc, att, prevClean,
                   envBudget, fnVars>>

\* the handler registered with the informers runs for a notification
HandlerRun ==
    /\ Alive
    /\ notify > 0
    /\ notify' = notify - 1
    /\ SetQueue(QueueAdd(QState, eventHandler("endpoints"), shuttingDown))
    /\ UNCHANGED <<world, store, watch, cache, cond, condSeen, waiting, failures, shuttingDown,
                   run, ctxDone, goroutines, pc, att, prevClean, envBudget, fnVars>>

\* an add, update or delete event of any of the five informers (a resync included)
WatchEvent ==
    /\ Alive
    /\ \E key \in {eventHandler(source) : source \in Sources} :
        SetQueue(QueueAdd(QState, key, shuttingDown))
    /\ UNCHANGED <<world, store, watch, cache, notify, cond, condSeen, waiting, failures, shuttingDown, run, ctxDone, goroutines, pc,
                   att, prevClean, envBudget, fnVars>>

\* the waiting loop of the delaying queue: the time of an item added by
\* AddRateLimited has come, the loop takes it off its heap and calls Add. The loop
\* tests ShuttingDown only before it looks at the heap, so a loop that passed the
\* test just before ShutDown still takes the item off afterwards, and Add then
\* drops it: the item is gone from the heap and is not queued
TimerFire ==
    /\ Alive
    /\ \E item \in waiting :
        /\ waiting' = waiting \ {item}
        /\ SetQueue(QueueAdd(QState, item, shuttingDown))
    /\ UNCHANGED <<world, store, watch, cache, notify, cond, condSeen, failures, shuttingDown,
                   run, ctxDone, goroutines, pc, att, prevClean, envBudget, fnVars>>

(***************************************************************************)
(* Run                                                                     *)
(***************************************************************************)
\* a Run that starts a goroutine for each worker asked for
GoroutinePerWorker(workers) == workers

\* the goroutines Run(ctx, workers) starts: "go wait.Until(c.runWorker, ...)", once
WorkerGoroutines(workers) == 1

\* Run: the caches are synced (WaitForCacheSync answers true, also when ctx is
\* cancelled by then) and the one worker goroutine is started
RunStart ==
    /\ run = "new"
    /\ run' = "running"
    /\ \E workers \in 1..MaxWorkers : goroutines' = WorkerGoroutines(workers)
    /\ pc' = "start"
    /\ UNCHANGED <<world, store, watch, cache, notify, cond, condSeen, queue, dirty, processing, waiting,
                   failures, shuttingDown, ctxDone, att, prevClean, envBudget, fnVars>>

\* ctx is cancelled
Cancel ==
    /\ Alive
    /\ ~ctxDone
    /\ ctxDone' = TRUE
    /\ UNCHANGED <<world, store, watch, cache, notify, cond, condSeen, queue, dirty, processing, waiting,
                   failures, shuttingDown, run, goroutines, pc, att, prevClean, envBudget,
                   fnVars>>

\* Run returns once ctx is cancelled, while it waits for the caches or after it
\* started the worker, and its deferred queue.ShutDown() runs
RunReturn ==
    /\ Alive
    /\ ctxDone
    /\ run \in {"new", "running"}
    /\ run' = "returned"
    /\ shuttingDown' = TRUE
    /\ UNCHANGED <<world, store, watch, cache, notify, cond, condSeen, queue, dirty, processing, waiting,
                   failures, ctxDone, goroutines, pc, att, prevClean, envBudget, fnVars>>

(***************************************************************************)
(* The worker: processNextWorkItem and sync                                *)
(***************************************************************************)
\* the orders in which nodeLister.List may return n nodes
Orders(n) == {p \in [1..n -> 1..n] : \A i, j \in 1..n : p[i] = p[j] => i = j}

Listed(nodes, p) == [i \in 1..Len(nodes) |-> nodes[p[i]]]

\* wait.Until in the goroutine Run started: it looks at ctx.Done() before its first
\* call of runWorker, and returns without calling it when ctx is cancelled
WorkerStart ==
    /\ pc = "start"
    /\ pc' = IF ctxDone THEN "exited" ELSE "get"
    /\ UNCHANGED <<world, store, watch, cache, notify, cond, condSeen, queue, dirty, processing, waiting,
                   failures, shuttingDown, run, ctxDone, goroutines, att, prevClean, envBudget,
                   fnVars>>

\* queue.Get() returns an item: a reconcile attempt starts
WorkerGet ==
    /\ pc = "get"
    /\ queue # <<>>
    /\ SetQueue(QueueGet(QState))
    /\ pc' = "build"
    /\ att' = [NoAttempt EXCEPT !.fixed = (watch = <<>>),
                                !.repeat = (prevClean /\ watch = <<>>),
                                !.down = shuttingDown]
    /\ UNCHANGED <<world, store, watch, cache, notify, cond, condSeen, waiting, failures, shuttingDown, run, ctxDone, goroutines,
                   prevClean, envBudget, fnVars>>

\* queue.Get() reports the shut down queue empty: runWorker returns
WorkerQuit ==
    /\ pc = "get"
    /\ queue = <<>>
    /\ shuttingDown
    /\ pc' = "exited"
    /\ UNCHANGED <<world, store, watch, cache, notify, cond, condSeen, queue, dirty, processing, waiting,
                   failures, shuttingDown, run, ctxDone, goroutines, att, prevClean, envBudget, fnVars>>

\* syncHostEndpoints from its Get of host-etcd to the call of applyEndpoints
BuildStep ==
    /\ pc = "build"
    /\ \E p \in Orders(Len(Worlds[world].nodes)) :
        \E r \in {BuildDesired(cache, Worlds[world], Listed(Worlds[world].nodes, p))} :
            /\ pc' = IF r.panic THEN "unwind"
                     ELSE IF r.err # NoErr THEN "status" ELSE "apply"
            /\ att' = [att EXCEPT !.existing = cache,
                                  !.required = r.required,
                                  !.members = r.members,
                                  !.hostErr = r.err,
                                  !.stage = IF r.err # NoErr THEN "build" ELSE "none"]
    /\ UNCHANGED <<world, store, watch, cache, notify, cond, condSeen, queue, dirty, processing, waiting,
                   failures, shuttingDown, run, ctxDone, goroutines, prevClean, envBudget, fnVars>>

\* an Update made as a delete followed by a create, of which the create may fail
WriteDeletesFirst(st, op, toWrite, ok) ==
    IF op = "create" THEN (IF ok /\ ~st.present THEN toWrite ELSE st)
    ELSE IF ok /\ st.present THEN toWrite ELSE NotFoundObj

\* host-etcd in the store after endpointsClient's Create or Update of toWrite: the
\* call fails (ok is false, or the object exists for Create, is missing for Update)
\* and leaves the store as it is, or succeeds
ClientWrite(st, op, toWrite, ok) ==
    IF op = "create" THEN (IF ok /\ ~st.present THEN toWrite ELSE st)
    ELSE IF ok /\ st.present THEN toWrite ELSE st

CreateReturnsNil(created) == IF created THEN NoErr ELSE ErrCreateFailed

\* what applyEndpoints returns after its Create: the error of the Create when it
\* failed, otherwise the error of the Get, which the inner err shadowed
AfterCreate(created) == IF created THEN ErrNotFound ELSE ErrCreateFailed

\* the lister holds the stored version: an Update of a copy of any older version
\* carries its resourceVersion and is refused as a conflict
Current == watch = <<>>

\* applyEndpoints from its Get of host-etcd at the lister to the call of the client:
\* the comparison, and toWrite, a copy of the object the lister returned
ApplyStep ==
    /\ pc = "apply"
    /\ \E plan \in {PlanApply(cache, att.required)} :
           \/ /\ plan.op = "panic"
              /\ pc' = "unwind"
              /\ UNCHANGED att
           \/ /\ plan.op = "none"
              /\ pc' = "status"
              /\ att' = [att EXCEPT !.changed = plan.changed]
           \/ /\ plan.op = "create"
              /\ pc' = "write"
              /\ att' = [att EXCEPT !.op = "create",
                                    !.written = plan.toWrite]
           \/ /\ plan.op = "update"
              /\ pc' = "write"
              /\ att' = [att EXCEPT !.op = "update",
                                    !.written = plan.toWrite,
                                    !.changed = plan.changed,
                                    !.stale = ~Current]
    /\ UNCHANGED <<world, store, watch, cache, notify, cond, condSeen, queue, dirty, processing, waiting,
                   failures, shuttingDown, run, ctxDone, goroutines, prevClean, envBudget,
                   fnVars>>

\* the Create or Update of applyEndpoints reaches the API server, which may refuse
\* it: the object exists already for a Create, is gone for an Update, the Update
\* carries the resourceVersion of an older version (a conflict), any other error
WriteStep ==
    /\ pc = "write"
    /\ pc' = "status"
    /\ \E ok \in BOOLEAN :
           IF att.op = "create"
           THEN LET created == ok /\ ~store.present
                IN  /\ store' = ClientWrite(store, "create", att.written, ok)
                    /\ watch' = IF created THEN Append(watch, att.written) ELSE watch
                    /\ att' = [att EXCEPT !.writes = @ + 1,
                                          !.writeFailed = ~created,
                                          !.hostErr = AfterCreate(created),
                                          !.stage = "apply"]
           ELSE LET updated == ok /\ store.present /\ ~att.stale
                IN  /\ store' = ClientWrite(store, "update", att.written, ok /\ ~att.stale)
                    /\ watch' = IF updated THEN Append(watch, att.written) ELSE watch
                    /\ att' = [att EXCEPT !.writes = @ + 1,
                                          !.writeFailed = ~updated,
                                          !.hostErr = IF updated THEN NoErr
                                                      ELSE ErrUpdateFailed,
                                          !.stage = IF updated THEN "none"
                                                    ELSE "apply"]
    /\ UNCHANGED <<world, cache, notify, cond, condSeen, queue, dirty, processing, waiting, failures,
                   shuttingDown, run, ctxDone, goroutines, prevClean, envBudget, fnVars>>

CondDegraded(err) ==
    [Status |-> "True", Reason |-> "ErrorUpdatingHostEndpoints", Message |-> err]

CondHealthy ==
    [Status |-> "False", Reason |-> "HostEndpointsUpdated", Message |-> ""]

ConditionAlwaysHealthy(err) == CondHealthy

\* the condition sync hands to UpdateStatus
ConditionFor(err) == IF err # NoErr THEN CondDegraded(err) ELSE CondHealthy

SyncResultStatusFirst(err, statusOK) == IF statusOK THEN err ELSE ErrStatusUpdate

\* what sync returns: err of syncHostEndpoints, or the error of UpdateStatus when
\* syncHostEndpoints succeeded and UpdateStatus did not
SyncResult(err, statusOK) ==
    IF err # NoErr THEN err
    ELSE IF statusOK THEN NoErr ELSE ErrStatusUpdate

\* sync after syncHostEndpoints returned: UpdateStatus. It reads the operator status
\* from the lister of the operator client and returns nil without a write when the
\* condition is in that copy already; otherwise it sends the update with the
\* resourceVersion of the copy, which the API server refuses when it holds a newer
\* version, and which may fail for any other reason
StatusStep ==
    /\ pc = "status"
    /\ \E ok \in BOOLEAN :
        \E wanted \in {ConditionFor(att.hostErr)} :
            LET skipped == ok /\ wanted = condSeen
                written == ok /\ wanted # condSeen /\ condSeen = cond
            IN  /\ cond' = IF written THEN wanted ELSE cond
                /\ att' = [att EXCEPT !.statusOK = (skipped \/ written),
                                      !.syncErr = SyncResult(att.hostErr, skipped \/ written)]
    /\ pc' = "finish"
    /\ UNCHANGED <<world, store, watch, cache, notify, condSeen, queue, dirty, processing,
                   waiting, failures, shuttingDown, run, ctxDone, goroutines, prevClean,
                   envBudget, fnVars>>

Min(a, b) == IF a < b THEN a ELSE b

RequeueOnSuccess(err) == err = NoErr

\* "if err == nil { Forget; return true }", otherwise AddRateLimited
Requeue(err) == err # NoErr

\* processNextWorkItem after sync returned: Forget, or AddRateLimited
FinishStep ==
    /\ pc = "finish"
    /\ IF Requeue(att.syncErr)
       THEN /\ failures' = Min(failures + 1, MaxFailures)
            /\ waiting' = IF shuttingDown THEN waiting ELSE waiting \cup {workQueueKey}
       ELSE /\ failures' = 0
            /\ waiting' = waiting
    /\ pc' = "done"
    /\ UNCHANGED <<world, store, watch, cache, notify, cond, condSeen, queue, dirty, processing,
                   shuttingDown, run, ctxDone, goroutines, att, prevClean, envBudget, fnVars>>

\* the deferred queue.Done(dsKey), which runs when processNextWorkItem returns and
\* when a panic of sync unwinds it; the panic then ends the process
DoneStep ==
    /\ pc \in {"done", "unwind"}
    /\ SetQueue(QueueDone(QState, workQueueKey))
    /\ IF pc = "unwind"
       THEN /\ pc' = "crashed"
            /\ UNCHANGED <<att, prevClean>>
       ELSE /\ pc' = "get"
            /\ prevClean' = (att.fixed /\ ~att.writeFailed)
            /\ att' = NoAttempt
    /\ UNCHANGED <<world, store, watch, cache, notify, cond, condSeen, waiting, failures,
                   shuttingDown, run, ctxDone, goroutines, envBudget, fnVars>>

Next ==
    \/ ExternalWrite
    \/ InformerSync
    \/ CondSync
    \/ HandlerRun
    \/ WatchEvent
    \/ TimerFire
    \/ RunStart
    \/ Cancel
    \/ RunReturn
    \/ WorkerStart
    \/ WorkerGet
    \/ WorkerQuit
    \/ BuildStep
    \/ ApplyStep
    \/ WriteStep
    \/ StatusStep
    \/ FinishStep
    \/ DoneStep

Spec == Init /\ [][Next]_vars

\* a step of the one worker goroutine
Worker ==
    \/ WorkerStart
    \/ WorkerGet
    \/ WorkerQuit
    \/ BuildStep
    \/ ApplyStep
    \/ WriteStep
    \/ StatusStep
    \/ FinishStep
    \/ DoneStep

\* the worker goroutine is scheduled, timers fire and the informer delivers
Fairness ==
    /\ WF_vars(Worker)
    /\ WF_vars(TimerFire)
    /\ WF_vars(InformerSync)
    /\ WF_vars(CondSync)
    /\ WF_vars(HandlerRun)
    /\ WF_vars(RunReturn)

\* the worlds in which the liveness of the queue protocol is checked: without
\* nodes, where an attempt succeeds on the etcd-bootstrap address alone and fails
\* without it, and two in which the build fails
FairWorlds == {2, 4, 7}

InitFair == Init /\ world \in FairWorlds

FairSpec == InitFair /\ [][Next]_vars /\ Fairness

\* the controller started in the world of three nodes on an empty host-etcd
InitThree ==
    /\ world = ThreeNodeWorld
    /\ store \in EmptyObjects
    /\ cache = store
    /\ watch = <<>>
    /\ notify = 0
    /\ cond = CondUnset
    /\ condSeen = CondUnset
    /\ queue = <<>>
    /\ dirty = {}
    /\ processing = {}
    /\ waiting = {}
    /\ failures = 0
    /\ shuttingDown = FALSE
    /\ run = "new"
    /\ ctxDone = FALSE
    /\ goroutines = 0
    /\ pc = "notStarted"
    /\ att = NoAttempt
    /\ prevClean = FALSE
    /\ envBudget = MaxExternalWrites
    /\ eqIn = EqIdle
    /\ eqOut = EqNone
    /\ dnsIn = DnsIdle
    /\ dnsOut = DnsNone

\* the steps of a controller that is the only writer of host-etcd and whose ctx
\* is never cancelled
NextThree ==
    \/ InformerSync
    \/ CondSync
    \/ HandlerRun
    \/ WatchEvent
    \/ TimerFire
    \/ RunStart
    \/ WorkerStart
    \/ WorkerGet
    \/ BuildStep
    \/ ApplyStep
    \/ WriteStep
    \/ StatusStep
    \/ FinishStep
    \/ DoneStep

SpecThree == InitThree /\ [][NextThree]_vars

(***************************************************************************)
(* The comparison of subsets on its own: endpointsSubsetsEqual applied to  *)
(* any two subsets built from EqAddrs                                      *)
(***************************************************************************)
EqAddrs ==
    { BootAddr,
      Addr(IPBoot, BootstrapName, N1),
      Member1,
      Addr(IP1, Etcd \o <<"0">>, N2),
      Addr(IP1, Etcd \o <<"1">>, N2) }

\* the sequences over S of length at most n
SeqsUpTo(S, n) == UNION {[1..k -> S] : k \in 0..n}

\* the not-ready addresses and ports given to a subset
EqShapes ==
    { [notReady |-> <<>>, ports |-> <<EtcdPort>>],
      [notReady |-> <<Member2>>, ports |-> <<EtcdPort>>],
      [notReady |-> <<>>, ports |-> <<>>] }

EqSubsets ==
    { Subset(a, sh.notReady, sh.ports) : a \in SeqsUpTo(EqAddrs, MaxAddrs), sh \in EqShapes }

\* lists of no, one or two subsets
EqLists ==
    SeqsUpTo({ Subset(<<Member1>>, <<>>, <<EtcdPort>>),
               Subset(<<Member2, Member1>>, <<>>, <<EtcdPort>>),
               Subset(<<Member1, Member2>>, <<>>, <<EtcdPort>>) }, 2)

InitEq ==
    /\ world = 1
    /\ store = NotFoundObj
    /\ cache = NotFoundObj
    /\ watch = <<>>
    /\ notify = 0
    /\ cond = CondUnset
    /\ condSeen = CondUnset
    /\ queue = <<>>
    /\ dirty = {}
    /\ processing = {}
    /\ waiting = {}
    /\ failures = 0
    /\ shuttingDown = FALSE
    /\ run = "new"
    /\ ctxDone = FALSE
    /\ goroutines = 0
    /\ pc = "notStarted"
    /\ att = NoAttempt
    /\ prevClean = FALSE
    /\ envBudget = 0
    /\ \/ \E l, r \in EqSubsets : eqIn = [lhs |-> <<l>>, rhs |-> <<r>>]
       \/ \E l, r \in EqLists : eqIn = [lhs |-> l, rhs |-> r]
    /\ eqOut = EqNone
    /\ dnsIn = DnsIdle
    /\ dnsOut = DnsNone

\* endpointsSubsetsEqual(lhs, rhs) is called, and applyEndpoints for an existing
\* object with the subsets lhs and a required object with the subsets rhs
Compare ==
    /\ ~eqOut.done
    /\ \E e \in {endpointsSubsetsEqual(eqIn.lhs, eqIn.rhs)},
          plan \in {PlanApply(Endpoints(Domain, eqIn.lhs), Endpoints(Domain, eqIn.rhs))} :
           eqOut' = [done |-> TRUE, panic |-> e.panic, eq |-> e.eq,
                     op |-> plan.op, changed |-> plan.changed,
                     subsets |-> plan.toWrite.Subsets]
    /\ UNCHANGED <<eqIn, dnsVars, world, store, watch, cache, notify, cond, condSeen, queue, dirty, processing, waiting,
                   failures, shuttingDown, run, ctxDone, goroutines, pc, att, prevClean, envBudget>>

NextEq == Compare

SpecEq == InitEq /\ [][NextEq]_vars

\* how often a occurs in the sequence s
Count(s, a) == Cardinality({i \in 1..Len(s) : s[i] = a})

\* s and t hold the same addresses, each as often
SameMultiset(s, t) ==
    /\ Len(s) = Len(t)
    /\ \A i \in 1..Len(s) : Count(s, s[i]) = Count(t, s[i])

\* C5: two subsets that hold the same multiset of addresses in different orders,
\* with as many not-ready addresses and ports, are reported equal by endpointsSubsetsEqual
C5_OrderIndependent ==
    (/\ eqOut.done
     /\ Len(eqIn.lhs) = 1
     /\ Len(eqIn.rhs) = 1
     /\ SameMultiset(eqIn.lhs[1].Addresses, eqIn.rhs[1].Addresses)
     /\ eqIn.lhs[1].Addresses # eqIn.rhs[1].Addresses
     /\ Len(eqIn.lhs[1].NotReadyAddresses) = Len(eqIn.rhs[1].NotReadyAddresses)
     /\ Len(eqIn.lhs[1].Ports) = Len(eqIn.rhs[1].Ports))
    => (~eqOut.panic /\ eqOut.eq)

(***************************************************************************)
(* reverseLookup on its own, and the address the loop of syncHostEndpoints *)
(* builds from its answer: any list of at most MaxSrvs records of DnsSrvs   *)
(***************************************************************************)
HostA == <<"a">>
HostB == <<"b">>

\* SRV records: a and b as the resolver answers them, c without the trailing dot
\* and with both addresses, d whose lookup fails, e without addresses
DnsSrvs ==
    { Srv(Fqdn(HostA), TRUE, <<IP1>>),
      Srv(Fqdn(HostB), TRUE, <<IP2>>),
      Srv(<<"c", ".">> \o Domain, TRUE, <<IP2, IP1>>),
      Srv(Fqdn(<<"d">>), FALSE, <<>>),
      Srv(Fqdn(<<"e">>), TRUE, <<>>) }

InitDns ==
    /\ world = 1
    /\ store = NotFoundObj
    /\ cache = NotFoundObj
    /\ watch = <<>>
    /\ notify = 0
    /\ cond = CondUnset
    /\ condSeen = CondUnset
    /\ queue = <<>>
    /\ dirty = {}
    /\ processing = {}
    /\ waiting = {}
    /\ failures = 0
    /\ shuttingDown = FALSE
    /\ run = "new"
    /\ ctxDone = FALSE
    /\ goroutines = 0
    /\ pc = "notStarted"
    /\ att = NoAttempt
    /\ prevClean = FALSE
    /\ envBudget = 0
    /\ eqIn = EqIdle
    /\ eqOut = EqNone
    /\ \E ok \in BOOLEAN, srvs \in SeqsUpTo(DnsSrvs, MaxSrvs), ip \in {IP1, IP2} :
           dnsIn = [srvOK |-> ok, srvs |-> srvs, ip |-> ip]
    /\ dnsOut = DnsNone

\* reverseLookup is called for dnsIn.ip, and the loop of syncHostEndpoints is run
\* for one node with that internal address
Resolve ==
    /\ ~dnsOut.done
    /\ \E w \in {World(TRUE, Domain, TRUE, TRUE, <<Node(N1, FALSE, dnsIn.ip)>>,
                       [srvOK |-> dnsIn.srvOK, srvs |-> dnsIn.srvs])} :
        \E r \in {reverseLookup(w.dns, dnsIn.ip)}, na \in {NodeAddresses(w, w.nodes, 1, <<>>)} :
            dnsOut' = [done |-> TRUE, err |-> r.err, name |-> r.name,
                       addrErr |-> na.err, addrs |-> na.addrs]
    /\ UNCHANGED <<dnsIn, eqVars, world, store, watch, cache, notify, cond, condSeen, queue, dirty, processing,
                   waiting, failures, shuttingDown, run, ctxDone, goroutines, pc, att, prevClean, envBudget>>

NextDns == Resolve

SpecDns == InitDns /\ [][NextDns]_vars

\* every forward lookup of dnsIn succeeds
LookupsOK == \A i \in 1..Len(dnsIn.srvs) : dnsIn.srvs[i].ok

\* the records of dnsIn whose addresses hold dnsIn.ip
Matching == {i \in 1..Len(dnsIn.srvs) : \E k \in 1..Len(dnsIn.srvs[i].addrs) :
                                            dnsIn.srvs[i].addrs[k] = dnsIn.ip}

\* name is target without its trailing dot
IsTargetTrimmed(name, target) ==
    /\ name # EmptyStr
    /\ name[Len(name)] # "."
    /\ (name = target \/ name \o <<".">> = target)

\* C13: reverseLookup (a) returns a target, its trailing dot trimmed, whose addresses
\* hold the ip when the SRV query and all lookups succeed and some target holds it,
\* (b) fails with "could not find self" when they succeed and no target holds it,
\* (c) fails when the SRV query fails or any lookup fails, also after a match; and
\* the address built has as hostname the name without "." and the domain:
\* a.example.com -> 10.0.0.1, b.example.com -> 10.0.0.2 and 10.0.0.1 give "a"
C13_ReverseLookup ==
    dnsOut.done =>
        /\ (dnsIn.srvOK /\ LookupsOK /\ Matching # {}) =>
               /\ dnsOut.err = NoErr
               /\ \E i \in Matching : IsTargetTrimmed(dnsOut.name, dnsIn.srvs[i].Target)
               /\ dnsOut.addrErr = NoErr
               /\ Len(dnsOut.addrs) = 1
               /\ dnsOut.addrs[1].IP = dnsIn.ip
               /\ dnsOut.addrs[1].Hostname \o <<".">> \o Domain = dnsOut.name
        /\ (dnsIn.srvOK /\ LookupsOK /\ Matching = {}) =>
               (dnsOut.err = ErrSelfNotFound /\ dnsOut.addrErr = ErrSelfNotFound)
        /\ ~dnsIn.srvOK => (dnsOut.err = ErrSRVLookup /\ dnsOut.addrErr = ErrSRVLookup)
        /\ (dnsIn.srvOK /\ ~LookupsOK) =>
               (dnsOut.err = ErrMemberUnresolved /\ dnsOut.addrErr = ErrMemberUnresolved)
        /\ dnsOut.err # NoErr => (dnsOut.name = EmptyStr /\ dnsOut.addrs = <<>>)
        /\ (/\ dnsIn.srvOK
            /\ dnsIn.srvs = <<Srv(Fqdn(HostA), TRUE, <<IP1>>), Srv(Fqdn(HostB), TRUE, <<IP2>>)>>
            /\ dnsIn.ip = IP1) => dnsOut.addrs = <<Addr(IP1, HostA, N1)>>

C13_Witness ==
    /\ dnsOut.done
    /\ dnsIn.srvOK
    /\ dnsIn.srvs = <<Srv(Fqdn(HostA), TRUE, <<IP1>>), Srv(Fqdn(HostB), TRUE, <<IP2>>)>>
    /\ dnsIn.ip = IP1
    /\ dnsOut.err = NoErr
    /\ dnsOut.addrs = <<Addr(IP1, HostA, N1)>>

(***************************************************************************)
(* Properties of the controller                                            *)
(***************************************************************************)
\* syncHostEndpoints has returned or panicked for the attempt in flight
PastBuild == pc \in {"apply", "write", "status", "finish", "done", "unwind", "crashed"}

\* applyEndpoints has returned for the attempt in flight
PastApply == pc \in {"status", "finish", "done"}

Range(s) == {s[i] : i \in 1..Len(s)}

\* C1: a reconcile that starts when the previous one has completed, its result is
\* visible to the lister and nothing else has changed issues no Create and no
\* Update; and applyEndpoints issues no write when its diff reports no change
C1_Idempotent ==
    /\ (PastBuild /\ att.repeat) => (att.writes = 0 /\ att.op = "none")
    /\ (PastApply /\ att.op # "create" /\ ~att.changed) => att.writes = 0

C1_Witness ==
    /\ pc = "finish"
    /\ att.repeat
    /\ att.required.present
    /\ att.hostErr = NoErr
    /\ att.writes = 0
    /\ store.present
    /\ store.Subsets = att.existing.Subsets

\* the etcd-bootstrap addresses of the first subset of an object
BootstrapsOf(obj) ==
    IF obj.present /\ Len(obj.Subsets) > 0
    THEN {a \in Range(obj.Subsets[1].Addresses) : a.Hostname = BootstrapName}
    ELSE {}

\* the etcd-bootstrap addresses of all subsets of an object
AllBootstrapsOf(obj) ==
    IF obj.present
    THEN UNION {{a \in Range(obj.Subsets[i].Addresses) : a.Hostname = BootstrapName} :
                    i \in 1..Len(obj.Subsets)}
    ELSE {}

\* C2: every etcd-bootstrap address of the object syncHostEndpoints read is,
\* unchanged, in the desired set computed from it, whatever the nodes, and no
\* Create or Update of the controller takes an etcd-bootstrap address out of the
\* stored host-etcd
C2_BootstrapPreserved ==
    /\ []((PastBuild /\ att.required.present)
             => AllBootstrapsOf(att.existing) \subseteq Range(att.required.Subsets[1].Addresses))
    /\ [][(pc = "write" /\ pc' # pc /\ store' # store)
              => AllBootstrapsOf(store) \subseteq AllBootstrapsOf(store')]_vars

\* a node of w for which no internal address is found, or for which the reverse
\* lookup fails
NodeFails(w, node) ==
    \/ node.ipErr
    \/ node.ip = EmptyStr
    \/ ~w.dns.srvOK
    \/ \E i \in 1..Len(w.dns.srvs) : ~w.dns.srvs[i].ok
    \/ \A i \in 1..Len(w.dns.srvs) : node.ip \notin Range(w.dns.srvs[i].addrs)

\* a step of the builder fails in w
BuilderFails(w) ==
    \/ ~w.infraOK
    \/ w.domain = EmptyStr
    \/ ~w.networkOK
    \/ ~w.nodesOK
    \/ \E i \in 1..Len(w.nodes) : NodeFails(w, w.nodes[i])

\* C3: when a step of the builder fails (host-etcd missing, no discovery domain, no
\* network config, no node list, a node without internal address, a failed lookup,
\* no address at all) the attempt ends with the error and has sent nothing to the store
C3_FailureAtomic ==
    /\ (PastBuild /\ (~att.existing.present \/ BuilderFails(Worlds[world])))
           => (pc \in {"status", "finish", "done"} /\ att.stage = "build")
    /\ (PastBuild /\ att.stage = "build")
           => /\ att.hostErr # NoErr
              /\ att.writes = 0
              /\ att.op = "none"
              /\ ~att.required.present
              /\ ~att.written.present
    /\ (PastBuild /\ att.hostErr = ErrNoReadyMembers) => att.stage = "build"

C3_Witness ==
    /\ pc = "finish"
    /\ att.stage = "build"
    /\ att.hostErr = ErrMemberUnresolved
    /\ att.syncErr = ErrMemberUnresolved
    /\ att.writes = 0
    /\ store = att.existing

\* the builder reaches the end of its loop over the nodes of w with no member address
NoMembers(w) == ~BuilderFails(w) /\ Len(w.nodes) = 0

\* C4, as claimed: with no member address computed from the topology the reconcile
\* fails with "no etcd member nodes are ready" and writes nothing, also when the
\* existing addresses hold an etcd-bootstrap address
C4_EmptyMembersFail ==
    (PastBuild /\ att.existing.present /\ Len(att.existing.Subsets) > 0
        /\ NoMembers(Worlds[world]))
    => (att.hostErr = ErrNoReadyMembers /\ att.writes = 0)

\* C4, amended: with no member address and no etcd-bootstrap address among the
\* existing addresses the reconcile fails with "no etcd member nodes are ready" and
\* writes nothing; with no member address and an etcd-bootstrap address it goes on
\* to applyEndpoints with one etcd-bootstrap address of the existing ones alone
C4_EmptyAddressesFail ==
    (PastBuild /\ att.existing.present /\ Len(att.existing.Subsets) > 0
        /\ NoMembers(Worlds[world]))
    => IF BootstrapsOf(att.existing) = {}
       THEN /\ att.hostErr = ErrNoReadyMembers
            /\ att.stage = "build"
            /\ att.writes = 0
            /\ pc \in {"status", "finish", "done"}
       ELSE /\ att.required.present
            /\ Len(att.required.Subsets[1].Addresses) = 1
            /\ att.required.Subsets[1].Addresses[1] \in BootstrapsOf(att.existing)
            /\ att.hostErr # ErrNoReadyMembers

C4_Witness ==
    /\ pc = "finish"
    /\ NoMembers(Worlds[world])
    /\ att.existing.present
    /\ BootstrapsOf(att.existing) = {}
    /\ att.hostErr = ErrNoReadyMembers
    /\ store = att.existing

\* C6: every watch source enqueues the one key, and whatever events arrive, while
\* the worker runs or not, at most one item waits in the queue
C6_Coalesced ==
    /\ \A source \in Sources : eventHandler(source) = workQueueKey
    /\ Len(queue) <= 1
    /\ Range(queue) \subseteq {workQueueKey}
    /\ dirty \subseteq {workQueueKey}
    /\ Range(queue) \subseteq dirty

C6_Witness ==
    /\ pc \in {"build", "apply", "status", "finish"}
    /\ processing = {workQueueKey}
    /\ dirty = {workQueueKey}
    /\ queue = <<>>
    /\ waiting = {workQueueKey}

\* C7: an attempt whose sync returned an error counts a failure and hands the key to
\* the rate limited queue, and unless the queue is shut down another attempt starts
\* later; an attempt whose sync returned nil resets the failures, and leaves the key
\* queued only if an Add arrived while it ran
C7_Retry ==
    /\ [][(pc = "finish" /\ pc' # pc) =>
            /\ pc' = "done"
            /\ processing' = {workQueueKey}
            /\ queue' = queue
            /\ dirty' = dirty
            /\ IF att.syncErr # NoErr
               THEN /\ failures' = Min(failures + 1, MaxFailures)
                    /\ (~shuttingDown => workQueueKey \in waiting')
               ELSE /\ failures' = 0
                    /\ waiting' = waiting]_vars
    /\ [][(pc = "done" /\ pc' # pc) =>
            /\ pc' = "get"
            /\ processing' = {}
            /\ failures' = failures
            /\ waiting' = waiting
            /\ (queue' # <<>> <=> workQueueKey \in dirty)]_vars
    /\ (pc = "finish" /\ att.syncErr # NoErr /\ ~shuttingDown)
           ~> (pc = "build" \/ shuttingDown)

C7_Witness ==
    /\ pc = "get"
    /\ failures > 0
    /\ waiting = {workQueueKey}
    /\ queue = <<>>
    /\ dirty = {}
    /\ ~shuttingDown

\* C8: when the status write of an attempt succeeded, HostEndpointsDegraded is True
\* with reason ErrorUpdatingHostEndpoints and the error as message exactly if
\* syncHostEndpoints returned an error, and False with reason HostEndpointsUpdated
\* exactly if it returned nil
C8_StatusReflectsOutcome ==
    (pc = "finish" /\ att.statusOK) =>
        /\ (att.hostErr # NoErr) <=>
               (cond = [Status |-> "True", Reason |-> "ErrorUpdatingHostEndpoints",
                        Message |-> att.hostErr])
        /\ (att.hostErr = NoErr) <=>
               (cond = [Status |-> "False", Reason |-> "HostEndpointsUpdated",
                        Message |-> ""])

\* C9, as claimed: what sync returns is the outcome of syncHostEndpoints alone,
\* whether the status write succeeds or not
C9_ResultIsOutcomeAlone ==
    pc = "finish" => att.syncErr = att.hostErr

\* C9, amended: when syncHostEndpoints failed sync returns that error whether the
\* status write succeeds or not; when it succeeded sync returns nil if the status
\* write succeeded and the error of the status write if it did not
C9_ResultOfSync ==
    pc = "finish" =>
        /\ (att.hostErr # NoErr => att.syncErr = att.hostErr)
        /\ (att.hostErr = NoErr /\ att.statusOK => att.syncErr = NoErr)
        /\ (att.hostErr = NoErr /\ ~att.statusOK => att.syncErr = ErrStatusUpdate)

C9_Witness ==
    /\ pc = "finish"
    /\ att.hostErr = ErrNoReadyMembers
    /\ ~att.statusOK
    /\ att.syncErr = ErrNoReadyMembers

\* C10: when host-etcd is absent as a reconcile starts, whether the lister says so
\* or the stored object is gone when the attempt reads it, the attempt fails with
\* the not-found error, sends no Create and no Update, reports degraded and is
\* requeued
C10_AbsentFails ==
    /\ []((PastBuild /\ ~att.existing.present) =>
             /\ pc \in {"status", "finish", "done"}
             /\ att.hostErr = ErrNotFound
             /\ att.stage = "build"
             /\ att.writes = 0
             /\ att.op = "none"
             /\ (pc = "finish" =>
                    /\ att.syncErr = ErrNotFound
                    /\ Requeue(att.syncErr)
                    /\ (att.statusOK => cond = CondDegraded(ErrNotFound))))
    /\ [][(pc = "build" /\ ~store.present /\ pc' # pc)
              => (pc' = "status" /\ att'.hostErr = ErrNotFound)]_vars

\* C11: in the world of three nodes, a reconcile that reads an empty host-etcd
\* computes the three addresses etcd-0, etcd-1, etcd-2 (one per node, with its IP
\* and node name) and the port etcd/2379/TCP, sends exactly one write, and when
\* the write and the status write succeed leaves the three addresses in the store
\* and HostEndpointsDegraded False
C11_EndToEnd ==
    (world = ThreeNodeWorld /\ PastBuild /\ att.existing \in EmptyObjects) =>
        /\ pc \notin {"unwind", "crashed"}
        /\ att.required.present
        /\ Len(att.required.Subsets) = 1
        /\ Len(att.required.Subsets[1].Addresses) = 3
        /\ Range(att.required.Subsets[1].Addresses) = {Member1, Member2, Member3}
        /\ att.required.Subsets[1].Ports = <<EtcdPort>>
        /\ (pc = "finish" /\ att.fixed) =>
               /\ att.writes = 1
               /\ (~att.writeFailed /\ att.statusOK) =>
                      /\ store.Subsets = att.required.Subsets
                      /\ cond = CondHealthy
                      /\ att.syncErr = NoErr

\* C12: when applyEndpoints finds host-etcd missing it sends one Create of required
\* and no Update, and returns an error only if the Create failed
C12_CreateOnNotFound ==
    (PastApply /\ att.op = "create") =>
        /\ att.writes = 1
        /\ att.written = att.required
        /\ (att.writeFailed => att.hostErr = ErrCreateFailed)
        /\ (~att.writeFailed => att.hostErr = NoErr)
        /\ (pc = "finish" /\ ~att.writeFailed /\ att.statusOK) =>
               (att.syncErr = NoErr /\ ~Requeue(att.syncErr))

\* a reconcile attempt is in flight
InFlight == pc \in {"build", "apply", "write", "status", "finish", "done", "unwind"}

\* C14, as claimed: once the queue is shut down the worker dequeues no item and
\* starts no reconcile attempt
C14_NoAttemptAfterCancel == InFlight => ~att.down

\* C14, amended: a worker goroutine that finds ctx cancelled before its first call
\* of runWorker exits and dequeues nothing; Run shuts the queue down only after ctx
\* is cancelled, and once the queue is shut down it stays shut down, takes no
\* trigger and queues no delayed item (one whose time comes is dropped, and the
\* delaying queue takes no new one); a worker in its loop still dequeues an
\* item that waits in the queue, or that Done puts back for a trigger that came
\* during the attempt in flight, and the attempt it starts for it is not requeued;
\* an attempt in flight ends only through its status update and does end; the
\* worker then exits
C14_CancelDrains ==
    /\ [](shuttingDown => ctxDone)
    /\ [][ctxDone => ctxDone']_vars
    /\ [][shuttingDown => shuttingDown']_vars
    /\ [][(pc = "start" /\ pc' # pc) =>
              (pc' = (IF ctxDone THEN "exited" ELSE "get")
               /\ queue' = queue /\ dirty' = dirty /\ processing' = {})]_vars
    /\ [][(shuttingDown /\ pc' = pc) =>
              (queue' = queue /\ dirty' = dirty /\ waiting' \subseteq waiting)]_vars
    /\ [][(shuttingDown /\ pc = "get" /\ pc' = "build") =>
              (queue # <<>> /\ queue' = <<>> /\ dirty' = {} /\ att'.down)]_vars
    /\ [][(pc = "finish" /\ att.down /\ pc' # pc) =>
              (pc' = "done" /\ queue' = <<>> /\ dirty' = {} /\ waiting' = waiting)]_vars
    /\ [][(pc = "done" /\ att.down /\ pc' # pc) =>
              (pc' = "get" /\ queue' = <<>> /\ dirty' = {} /\ waiting' = waiting)]_vars
    /\ [][(InFlight /\ pc' # pc) =>
              (pc' \in {"apply", "write", "status", "finish", "done", "unwind", "get",
                        "crashed"}
               /\ (pc' = "done" <=> pc = "finish")
               /\ (pc' = "get" <=> pc = "done")
               /\ (pc' = "crashed" <=> pc = "unwind"))]_vars
    /\ ctxDone ~> (pc \in {"notStarted", "exited", "crashed"})

C14_Witness ==
    /\ shuttingDown
    /\ pc = "finish"
    /\ att.down
    /\ att.writes = 1
    /\ ~att.writeFailed
    /\ att.statusOK
    /\ store = att.written

\* two subsets match: as many addresses, not-ready addresses and ports, and the
\* same addresses each as often (their sorted lists are identical)
SubsetsMatch(l, r) ==
    /\ Len(l.Addresses) = Len(r.Addresses)
    /\ Len(l.NotReadyAddresses) = Len(r.NotReadyAddresses)
    /\ Len(l.Ports) = Len(r.Ports)
    /\ SameMultiset(l.Addresses, r.Addresses)

ListsMatch(lhs, rhs) ==
    /\ Len(lhs) = Len(rhs)
    /\ \A i \in 1..Len(lhs) : SubsetsMatch(lhs[i], rhs[i])

\* C15: endpointsSubsetsEqual answers, and answers equal exactly for lists of the
\* same length whose subsets match by position; when it answers unequal the object
\* to write carries the subsets of required and changed is true, when it answers
\* equal the object keeps the existing subsets and no write is asked for
C15_SubsetEquality ==
    eqOut.done =>
        /\ ~eqOut.panic
        /\ eqOut.eq <=> ListsMatch(eqIn.lhs, eqIn.rhs)
        /\ ~eqOut.eq => (eqOut.op = "update" /\ eqOut.changed /\ eqOut.subsets = eqIn.rhs)
        /\ eqOut.eq => (eqOut.op = "none" /\ ~eqOut.changed /\ eqOut.subsets = eqIn.lhs)

\* the addresses of the one subset of obj that are not etcd-bootstrap addresses
MembersOf(obj) ==
    {a \in Range(obj.Subsets[1].Addresses) : a.Hostname # BootstrapName}

\* obj has one subset with an address for each node of w (its internal address, a
\* hostname and its name), at most one etcd-bootstrap address, and nothing else
OneSubsetOfMembers(obj, w) ==
    /\ Len(obj.Subsets) = 1
    /\ Len(obj.Subsets[1].Addresses) > 0
    /\ Len(obj.Subsets[1].NotReadyAddresses) = 0
    /\ Cardinality(MembersOf(obj)) = Len(w.nodes)
    /\ \A i \in 1..Len(w.nodes) :
           \E a \in MembersOf(obj) :
               /\ a.IP = w.nodes[i].ip
               /\ a.IP # EmptyStr
               /\ a.Hostname # EmptyStr
               /\ a.NodeName = w.nodes[i].Name
    /\ Len(obj.Subsets[1].Addresses) <= Len(w.nodes) + 1
    /\ Len(obj.Subsets[1].Ports) = 1

\* C16, as claimed: every object sent to Create or Update has one subset with a non-empty
\* address list, an address per listed node and at most one etcd-bootstrap address,
\* and the port etcd/2379/TCP; an empty address list fails with "no etcd member
\* nodes are ready" and nothing is written
C16_WritesFixedPort ==
    /\ (PastApply /\ att.writes > 0) =>
           /\ OneSubsetOfMembers(att.written, Worlds[world])
           /\ att.written.Subsets[1].Ports = <<EtcdPort>>
    /\ (PastBuild /\ att.hostErr = ErrNoReadyMembers) => att.writes = 0

\* C16, amended: as claimed, but the port is etcd/2379/TCP in the desired object and
\* in every object written by a Create or with replaced subsets; an Update for the
\* annotation alone carries the subsets applyEndpoints read, which compared equal
\* to the desired ones, with the one port they have
C16_WritesNonEmpty ==
    /\ (PastBuild /\ att.required.present) =>
           /\ OneSubsetOfMembers(att.required, Worlds[world])
           /\ att.required.Subsets[1].Ports = <<EtcdPort>>
    /\ (PastApply /\ att.writes > 0) =>
           /\ att.required.present
           /\ OneSubsetOfMembers(att.written, Worlds[world])
           /\ \/ att.written.Subsets = att.required.Subsets
              \/ /\ att.op = "update"
                 /\ att.written.Annotations = att.required.Annotations
                 /\ SameMultiset(att.written.Subsets[1].Addresses,
                                 att.required.Subsets[1].Addresses)
    /\ (PastBuild /\ att.hostErr = ErrNoReadyMembers) =>
           (att.writes = 0 /\ ~att.required.present /\ pc \in {"status", "finish", "done"})

C16_Witness ==
    /\ pc = "finish"
    /\ att.op = "update"
    /\ ~att.writeFailed
    /\ att.written.Subsets = att.required.Subsets
    /\ att.written.Subsets[1].Addresses = <<Member1, Member2, BootAddr>>
    /\ store = att.written

\* C17: an attempt sends at most one write, a Create or an Update; the store changes
\* in a step of the worker only by that write, which leaves host-etcd present and
\* as written; no step of the worker changes what the node, network and
\* infrastructure listers answer
C17_WriteFootprint ==
    /\ [](/\ att.writes \in {0, 1}
          /\ att.op \in {"none", "create", "update"}
          /\ (att.op \in {"create", "update"}) <=> (att.writes = 1 \/ pc = "write")
          /\ (pc = "write") => att.writes = 0
          /\ (att.op = "none") => ~att.written.present)
    /\ [][(pc' # pc) =>
              /\ world' = world
              /\ (att'.writes = att.writes \/ pc' = "get") => store' = store
              /\ (store' # store) =>
                     /\ pc = "write"
                     /\ att.writes = 0
                     /\ att'.writes = 1
                     /\ att'.written = att.written
                     /\ store'.present
                     /\ store' = att.written]_vars

C17_Witness ==
    /\ pc = "finish"
    /\ att.writes = 1
    /\ att.op = "update"
    /\ ~att.writeFailed
    /\ store = att.written
    /\ store # att.existing

\* C18: whatever workers Run is given it starts one worker goroutine, and whatever
\* triggers arrive the queue has handed out the key exactly while that worker is
\* in an attempt: at most one attempt is in flight
C18_OneAttempt ==
    /\ goroutines <= 1
    /\ (pc # "notStarted") <=> (goroutines = 1)
    /\ Cardinality(processing) <= 1
    /\ InFlight <=> (processing = {workQueueKey})
    /\ InFlight => workQueueKey \notin Range(queue)

C18_Witness ==
    /\ pc = "apply"
    /\ goroutines = 1
    /\ processing = {workQueueKey}
    /\ dirty = {workQueueKey}
    /\ queue = <<>>

\* the attempt in flight has read its inputs
PastRead == pc \in {"apply", "write", "status", "finish", "done"}

\* C19: an event whose handler runs while an attempt is in flight (the handler of
\* the endpoints informer, a delayed item coming due, any watch event) marks the
\* key dirty and leaves it out of the queue; when the attempt ends, with sync's nil
\* or with its error, Done queues the key again, and another attempt starts
C19_NoLostTrigger ==
    /\ [][(InFlight /\ ~shuttingDown /\ pc' = pc
            /\ (notify' < notify \/ waiting' # waiting \/ dirty' # dirty))
              => (dirty' = {workQueueKey} /\ queue' = queue
                  /\ processing' = processing /\ att' = att)]_vars
    /\ [][(pc = "finish" /\ pc' # pc)
              => (pc' = "done" /\ dirty' = dirty /\ queue' = queue)]_vars
    /\ [][(pc \in {"done", "unwind"} /\ pc' # pc /\ workQueueKey \in dirty)
              => (queue' = <<workQueueKey>> /\ dirty' = dirty /\ processing' = {})]_vars
    /\ (PastRead /\ workQueueKey \in dirty) ~> (pc = "build")

C19_Witness ==
    /\ pc = "finish"
    /\ ~shuttingDown
    /\ dirty = {workQueueKey}
    /\ att.syncErr # NoErr
    /\ att.stage = "apply"

\* Run is called, and the informers go on delivering events (the first listing of
\* each informer and its resyncs), next to the fairness of the worker
InitConverge ==
    /\ Init
    /\ world = 1
    /\ store = Endpoints(NoAnnotation, OneSubset(<<BootAddr>>))

\* the steps of a controller whose ctx is never cancelled
NextConverge ==
    \/ ExternalWrite
    \/ InformerSync
    \/ CondSync
    \/ HandlerRun
    \/ WatchEvent
    \/ TimerFire
    \/ RunStart
    \/ WorkerStart
    \/ WorkerGet
    \/ BuildStep
    \/ ApplyStep
    \/ WriteStep
    \/ StatusStep
    \/ FinishStep
    \/ DoneStep

ConvergeSpec ==
    /\ InitConverge
    /\ [][NextConverge]_vars
    /\ Fairness
    /\ WF_vars(RunStart)
    /\ WF_vars(WatchEvent)

\* what syncHostEndpoints builds from the stored object in world w
DesiredOf(st, w) == BuildDesired(st, w, w.nodes)

\* host-etcd exists with at least one subset, and every input of the build resolves
Published ==
    /\ store.present
    /\ Len(store.Subsets) >= 1
    /\ DesiredOf(store, Worlds[world]).err = NoErr

\* Run is not cancelled and no write of the attempt in flight has failed
WritesSucceed ==
    /\ ~ctxDone
    /\ ~shuttingDown
    /\ ~att.writeFailed
    /\ (pc \in {"finish", "done"} => att.statusOK)

\* the stored addresses are the desired ones, the lister has them, the condition is
\* HostEndpointsDegraded=False and the attempt in flight has written nothing
Converged ==
    /\ Published
    /\ cache = store
    /\ SameMultiset(store.Subsets[1].Addresses,
                    DesiredOf(store, Worlds[world]).required.Subsets[1].Addresses)
    /\ cond = CondHealthy
    /\ att.writes = 0

\* C20: once host-etcd exists with a subset, the inputs resolve, writes succeed, the
\* other writers have stopped and the controller keeps running, the controller
\* reaches the converged state and stays in it
C20_Converges == (<>[](Published /\ WritesSucceed /\ Alive)) => <>[]Converged

====
